---- MODULE Spec2Model ----
(***************************************************************************)
(* AgroTrack-Lite: the workflow engine (src/src/workflow/handleIntent.ts)  *)
(* and the task planner (src/src/agent/planner.ts) as one state machine.   *)
(*                                                                         *)
(* Every async function is cut at its awaits: the code between two awaits  *)
(* is one atomic action (Node runs it to completion), and other requests  *)
(* and timer callbacks may run while a handler is suspended at an await.   *)
(* Collaborator calls (ledger append, release action) resolve or reject,   *)
(* chosen nondeterministically.                                            *)
(***************************************************************************)
EXTENDS Integers, Sequences, FiniteSets, TLC

VARIABLES
    env,            \* process.env: FARMER_ACCOUNT_ID, BUYER_ACCOUNT_ID,
                    \* REQUIRE_OPERATOR_APPROVAL, ESCROW_DEMO_MODE
    pendingByOtp,   \* handleIntent.ts:8   Map otp -> pending delivery
    queue,          \* planner.ts:25       Task[]
    timer,          \* planner.ts:26       TRUE once setInterval(tick) is armed
    now,            \* Date.now(), in ms
    hs,             \* webhook requests in flight: position inside handleIntent, and the
                    \* labels of the ledger appends the handling has called so far (log)
    tk,             \* tick() invocations in flight: position inside tick
    approveOut,     \* the POST /api/approve request served by the step just taken and
                    \* its answer; NoApprove after any other step
    consumed,       \* history: codes whose current store entry already produced a task
    hist,           \* history, one record per task (same index as queue)
    tool,           \* the escrowReleaseTool call in flight (tools.ts)
    report,         \* report.ts: the topic as the mirror node serves it, and the
                    \* runDailyReport call in flight
    sched,          \* report.ts: the timers of startDailyReportScheduler
    hcs,            \* the ledger topic, as far as the entries the README expects go:
                    \* those of their labels appended so far, in the order in which
                    \* each was first appended
    webhookOut,     \* index.ts: the response of POST /webhook/sms sent by the step
                    \* just taken, if any
    router          \* router.ts: a delivery message as typed, the code it was stored
                    \* under, and what the classifier makes of the confirmation of
                    \* that code

vars == <<env, pendingByOtp, queue, timer, now, hs, tk, approveOut, consumed, hist, tool,
          report, sched, hcs, webhookOut, router>>

----------------------------------------------------------------------------
(* Bounds of the model *)

MaxQueue == 2
MaxNow == 1500
AttemptCap == 6
RetryCap == 2

(* Program constants *)

AUTO_RELEASE_DELAY_MS == 30000
MAX_ATTEMPTS == 5
BACKOFF_START_MS == 1500
BACKOFF_CAP_MS == 60000

\* a sender has one webhook request in flight at a time (the farmer's and the
\* buyer's phones of the smoke test); a tick source has one invocation in flight
\* at a time: the interval timer (planner.ts:36), POST /api/queue/run (planner.ts:63)
Senders == {"+254700000001", "+254711000002"}
Sources == {"timer", "run"}

Codes == {"553904", "1234"}
Otps == Codes \cup {""}
\* what a delivery message carries besides its code, after handleIntent.ts:55-58:
\* qty = Number(quantity ?? 0), with nan when the quantity is not numeric (the
\* router yields digits or '', the AI interpreter any number or string), unit, grade
Loads ==
    {[qty |-> 200, nan |-> FALSE, unit |-> "kg", grade |-> "A"],
     [qty |-> 198, nan |-> FALSE, unit |-> "bags", grade |-> "B"],
     [qty |-> 0, nan |-> FALSE, unit |-> "kg", grade |-> ""],
     [qty |-> -5, nan |-> FALSE, unit |-> "kg", grade |-> ""],
     [qty |-> 0, nan |-> TRUE, unit |-> "kg", grade |-> ""]}

Qtys == {l.qty : l \in Loads}
AccountIds == {"", "0.0.1001"}

NoLoad == [qty |-> 0, nan |-> FALSE, unit |-> "", grade |-> ""]

Intent(type, otp, l) ==
    [type |-> type, otp |-> otp, qty |-> l.qty, nan |-> l.nan, unit |-> l.unit,
     grade |-> l.grade]

Intents ==
    {Intent("DELIVERY_CONFIRMATION", o, l) : o \in Otps, l \in Loads}
      \cup {Intent("BUYER_CONFIRM", o, NoLoad) : o \in Otps}
      \cup {Intent(t, "", NoLoad) : t \in {"HELP_REQUEST", "NEW_LISTING", "UNKNOWN"}}

\* the intents about one code and one accepted quantity
IntentsOne ==
    {i \in Intents : i.otp \in {"", "553904"} /\ i.qty \in {0, 200} /\ ~i.nan}

Min(a, b) == IF a <= b THEN a ELSE b

----------------------------------------------------------------------------
(* Map helpers: Map.get / Map.set / Map.delete of pendingByOtp *)

Undefined == [qty |-> 0, unit |-> "", grade |-> "", farmerId |-> "", buyerId |-> ""]

pendingGet(m, otp) == IF otp \in DOMAIN m THEN m[otp] ELSE Undefined

\* mutant: an existing entry is kept (set only if absent)
pendingSet_KeepsFirst(m, otp, v) ==
    [c \in DOMAIN m \cup {otp} |-> IF c \in DOMAIN m THEN m[c] ELSE v]

pendingSet(m, otp, v) == [c \in DOMAIN m \cup {otp} |-> IF c = otp THEN v ELSE m[c]]

pendingDelete(m, otp) == [c \in DOMAIN m \ {otp} |-> m[c]]

----------------------------------------------------------------------------
(* State after module load *)

IdleHandler ==
    [pc |-> "idle", type |-> "", otp |-> "", qty |-> 0, nan |-> FALSE, unit |-> "",
     grade |-> "", event |-> "", sms |-> "", log |-> <<>>,
     taskId |-> 0, amount |-> 0, q0 |-> 0, st0 |-> 0]

NoApprove == [id |-> 0, out |-> "none"]

\* no response of the webhook; in a response, to is the sender whose request is
\* answered ("" for a request refused at index.ts:46)
NoAnswer == [to |-> "", status |-> "none", message |-> ""]

IdleTick == [pc |-> "idle", task |-> 0]

\* out is the ToolResult of the last call: "ok", or the kind of { ok: false }
IdleTool == [pc |-> "idle", amount |-> 0, out |-> "none"]

\* README.md:98-102: the labels of the expected topic log entries
ExpectedLabels == {"DeliveryRecorded", "BuyerConfirmed", "EscrowReleased"}

\* the topic after an accepted append of an entry with this label
Appended(topic, label) ==
    IF label \in ExpectedLabels /\ \A i \in 1..Len(topic) : topic[i] # label
    THEN Append(topic, label)
    ELSE topic

\* escrow.ts:76-86, 104: the label of the entry simulateEscrowRelease appends
releaseLabel(e) == IF e.ESCROW_DEMO_MODE THEN "EscrowReleased_SIM" ELSE "EscrowReleased"

\* at is the consensus timestamp of a fetched message, in ms, standing for the
\* message (its label and payload); ts is the number report.ts:21 computes from it
IdleReport ==
    [pc |-> "idle", mirror |-> <<>>, forDate |-> 0, startSec |-> 0, endSec |-> 0,
     page |-> 0, out |-> <<>>, withinDay |-> <<>>]

IdleSched == [pc |-> "off", startedAt |-> 0, first |-> 0, last |-> 0, runs |-> 0]

IdleRouter == [pc |-> "idle", text |-> <<>>, otp |-> <<>>, type |-> "", confirmed |-> <<>>]

\* everything but the topic's content and the message given to the classifier
InitProgram ==
    /\ env \in [FARMER_ACCOUNT_ID : AccountIds, BUYER_ACCOUNT_ID : AccountIds,
                REQUIRE_OPERATOR_APPROVAL : BOOLEAN, ESCROW_DEMO_MODE : BOOLEAN]
    /\ pendingByOtp = [c \in {} |-> Undefined]
    /\ queue = <<>>
    /\ timer = FALSE
    /\ now = 0
    /\ hs = [s \in Senders |-> IdleHandler]
    /\ tk = [k \in Sources |-> IdleTick]
    /\ approveOut = NoApprove
    /\ webhookOut = NoAnswer
    /\ consumed = {}
    /\ hist = <<>>
    /\ tool = IdleTool
    /\ sched = IdleSched
    /\ hcs = <<>>

Init ==
    /\ InitProgram
    /\ report = IdleReport
    /\ router = IdleRouter

----------------------------------------------------------------------------
(* Workflow engine: handleIntent.ts *)

\* mutant: the sign of the quantity is not checked
storeAccepts_NoSignCheck(e, otp, qty) ==
    /\ otp # ""
    /\ qty # 0
    /\ e.FARMER_ACCOUNT_ID # ""
    /\ e.BUYER_ACCOUNT_ID # ""

\* mutant: the party identifiers are not checked
storeAccepts_NoEnvCheck(e, otp, qty) ==
    /\ otp # ""
    /\ qty # 0
    /\ qty > 0

\* storePendingDelivery, line 23: the arguments and the environment are usable
storeAccepts(e, otp, qty) ==
    /\ otp # ""
    /\ qty # 0
    /\ qty > 0
    /\ e.FARMER_ACCOUNT_ID # ""
    /\ e.BUYER_ACCOUNT_ID # ""

\* storePendingDelivery, lines 28-34: the store after a successful call
storePendingDelivery(m, e, otp, qty, unit, grade) ==
    pendingSet(m, otp, [qty |-> qty, unit |-> IF unit = "" THEN "kg" ELSE unit,
                        grade |-> grade,
                        farmerId |-> e.FARMER_ACCOUNT_ID, buyerId |-> e.BUYER_ACCOUNT_ID])

\* mutant: the first run is delayed also when approval is required
initialDelay_Always(requiresApproval) == AUTO_RELEASE_DELAY_MS

\* planner.ts:73: the first-run delay
initialDelay(requiresApproval) == IF requiresApproval THEN 0 ELSE AUTO_RELEASE_DELAY_MS

\* planner.ts:74-84: the task enqueueReleaseEscrow builds
NewTask(id, otp, amount, farmerId, buyerId, requiresApproval, t) ==
    [id |-> id,
     type |-> "releaseEscrow",
     payload |-> [otp |-> otp, amount |-> amount, farmerId |-> farmerId, buyerId |-> buyerId],
     status |-> IF requiresApproval THEN "waiting_approval" ELSE "pending",
     attempts |-> 0,
     maxAttempts |-> MAX_ATTEMPTS,
     nextRunAt |-> t + initialDelay(requiresApproval),
     backoffMs |-> BACKOFF_START_MS,
     requiresApproval |-> requiresApproval]

NewHist(t, dup) ==
    [enqAt |-> t, approved |-> FALSE, failAt |-> 0, failBackoff |-> 0, dup |-> dup,
     released |-> FALSE]

\* mutant: handleIntent starts without appending IncomingIntent
Receive_NoIncomingLog(s, i) ==
    /\ hs[s].pc = "idle"
    /\ hs' = [hs EXCEPT ![s] =
                [IdleHandler EXCEPT !.pc = "incoming", !.type = i.type, !.otp = i.otp,
                                    !.qty = i.qty, !.nan = i.nan, !.unit = i.unit,
                                    !.grade = i.grade,
                                    !.q0 = Len(queue),
                                    !.st0 = pendingGet(pendingByOtp, i.otp).qty]]
    /\ approveOut' = NoApprove
    /\ webhookOut' = NoAnswer
    /\ UNCHANGED <<router, env, tool, report, sched, hcs, pendingByOtp, queue, timer, now, tk, consumed, hist>>

\* index.ts:52-58 and handleIntent.ts:51: a webhook request with a parsed intent
\* enters handleIntent, which suspends on the IncomingIntent append
Receive(s, i) ==
    /\ hs[s].pc = "idle"
    /\ hs' = [hs EXCEPT ![s] =
                [IdleHandler EXCEPT !.pc = "incoming", !.type = i.type, !.otp = i.otp,
                                    !.qty = i.qty, !.nan = i.nan, !.unit = i.unit,
                                    !.grade = i.grade, !.log = <<"IncomingIntent">>,
                                    !.q0 = Len(queue),
                                    !.st0 = pendingGet(pendingByOtp, i.otp).qty]]
    /\ approveOut' = NoApprove
    /\ webhookOut' = NoAnswer
    /\ UNCHANGED <<router, env, tool, report, sched, hcs, pendingByOtp, queue, timer, now, tk, consumed, hist>>

\* mutant: a notify-only branch also deletes the entry of the intent's code
Reply_Deletes(s, event, sms) ==
    /\ hs' = [hs EXCEPT ![s].pc = "sms", ![s].event = event, ![s].sms = sms]
    /\ pendingByOtp' = pendingDelete(pendingByOtp, "553904")
    /\ approveOut' = NoApprove
    /\ webhookOut' = NoAnswer
    /\ UNCHANGED <<router, env, tool, report, sched, hcs, queue, timer, now, tk, consumed, hist>>

\* a branch that only notifies the sender and then appends its event
Reply(s, event, sms) ==
    /\ hs' = [hs EXCEPT ![s].pc = "sms", ![s].event = event, ![s].sms = sms]
    /\ approveOut' = NoApprove
    /\ webhookOut' = NoAnswer
    /\ UNCHANGED <<router, env, tool, report, sched, hcs, pendingByOtp, queue, timer, now, tk, consumed, hist>>

\* line 60: !otp || !qty
missing(h) == h.otp = "" \/ h.nan \/ h.qty = 0

\* lines 54-64: DELIVERY_CONFIRMATION without otp or quantity
DeliveryRejected(s) ==
    /\ hs[s].pc = "incoming"
    /\ hs[s].type = "DELIVERY_CONFIRMATION"
    /\ missing(hs[s])
    /\ Reply(s, "DeliveryRejected", "missing_otp_or_qty")

\* lines 66-71: storePendingDelivery returned false
DeliveryNotStored(s) ==
    /\ hs[s].pc = "incoming"
    /\ hs[s].type = "DELIVERY_CONFIRMATION"
    /\ ~missing(hs[s])
    /\ ~storeAccepts(env, hs[s].otp, hs[s].qty)
    /\ Reply(s, "PendingDeliveryNotStored", "could_not_record")

\* lines 66, 73: storePendingDelivery stored the delivery
DeliveryStored(s) ==
    /\ hs[s].pc = "incoming"
    /\ hs[s].type = "DELIVERY_CONFIRMATION"
    /\ ~missing(hs[s])
    /\ storeAccepts(env, hs[s].otp, hs[s].qty)
    /\ pendingByOtp' = storePendingDelivery(pendingByOtp, env, hs[s].otp, hs[s].qty,
                                             hs[s].unit, hs[s].grade)
    /\ consumed' = consumed \ {hs[s].otp}
    /\ hs' = [hs EXCEPT ![s].pc = "sms", ![s].event = "DeliveryRecorded",
                        ![s].sms = "delivery_recorded"]
    /\ approveOut' = NoApprove
    /\ webhookOut' = NoAnswer
    /\ UNCHANGED <<router, env, tool, report, sched, hcs, queue, timer, now, tk, hist>>

\* lines 78-84: BUYER_CONFIRM without otp
ConfirmMissingOtp(s) ==
    /\ hs[s].pc = "incoming"
    /\ hs[s].type = "BUYER_CONFIRM"
    /\ hs[s].otp = ""
    /\ Reply(s, "BuyerConfirmRejected", "missing_otp")

\* lines 86-91: no pending delivery under this otp
ConfirmNoPending(s) ==
    /\ hs[s].pc = "incoming"
    /\ hs[s].type = "BUYER_CONFIRM"
    /\ hs[s].otp # ""
    /\ pendingGet(pendingByOtp, hs[s].otp) = Undefined
    /\ Reply(s, "BuyerConfirmNoPending", "no_pending")

\* mutant: the release amount is a fixed number of tokens
releaseAmount_Fixed(pending) == 200

\* line 94: const amount = pending.qty (one token per unit of quantity)
releaseAmount(pending) == pending.qty

\* lines 86, 94-100 and planner.ts:69-86: the lookup succeeds, enqueueReleaseEscrow
\* pushes the task and suspends on the TaskEnqueued append
ConfirmEnqueue(s) ==
    /\ hs[s].pc = "incoming"
    /\ hs[s].type = "BUYER_CONFIRM"
    /\ hs[s].otp # ""
    /\ pendingGet(pendingByOtp, hs[s].otp) # Undefined
    /\ Len(queue) < MaxQueue
    /\ LET pending == pendingGet(pendingByOtp, hs[s].otp)
           id == Len(queue) + 1
       IN /\ queue' = Append(queue, NewTask(id, hs[s].otp, releaseAmount(pending), pending.farmerId,
                                            pending.buyerId, env.REQUIRE_OPERATOR_APPROVAL, now))
          /\ hist' = Append(hist, NewHist(now, hs[s].otp \in consumed))
          /\ hs' = [hs EXCEPT ![s].pc = "enqLog", ![s].taskId = id, ![s].amount = releaseAmount(pending),
                              ![s].log = Append(@, "TaskEnqueued")]
    /\ consumed' = consumed \cup {hs[s].otp}
    /\ approveOut' = NoApprove
    /\ webhookOut' = NoAnswer
    /\ UNCHANGED <<router, env, tool, report, sched, hcs, pendingByOtp, timer, now, tk>>

\* planner.ts:86-89: the TaskEnqueued append resolves (the id is returned and
\* handleIntent suspends on the EscrowReleaseEnqueued append) or rejects
\* (the rejection leaves enqueueReleaseEscrow and handleIntent)
EnqueueLogged(s, ok) ==
    /\ hs[s].pc = "enqLog"
    /\ hs' = [hs EXCEPT ![s].pc = IF ok THEN "relLog" ELSE "threw",
                        ![s].log = IF ok THEN Append(@, "EscrowReleaseEnqueued") ELSE @]
    /\ approveOut' = NoApprove
    /\ webhookOut' = NoAnswer
    /\ UNCHANGED <<router, env, tool, report, sched, hcs, pendingByOtp, queue, timer, now, tk, consumed, hist>>

\* lines 102-115: the EscrowReleaseEnqueued append settled (safeHcsLog), the sender
\* is notified
EscrowEventLogged(s) ==
    /\ hs[s].pc = "relLog"
    /\ hs' = [hs EXCEPT ![s].pc = "confSms", ![s].event = "EscrowReleaseEnqueued",
                        ![s].sms = IF env.REQUIRE_OPERATOR_APPROVAL
                                   THEN "queued_for_approval" ELSE "queued"]
    /\ approveOut' = NoApprove
    /\ webhookOut' = NoAnswer
    /\ UNCHANGED <<router, env, tool, report, sched, hcs, pendingByOtp, queue, timer, now, tk, consumed, hist>>

\* lines 117-118: after the notification the pending delivery is deleted
ConfirmSmsSent(s) ==
    /\ hs[s].pc = "confSms"
    /\ pendingByOtp' = pendingDelete(pendingByOtp, hs[s].otp)
    /\ consumed' = consumed \ {hs[s].otp}
    /\ hs' = [hs EXCEPT ![s].pc = "done"]
    /\ approveOut' = NoApprove
    /\ webhookOut' = NoAnswer
    /\ UNCHANGED <<router, env, tool, report, sched, hcs, queue, timer, now, tk, hist>>

\* lines 121-130
HelpRequest(s) ==
    /\ hs[s].pc = "incoming"
    /\ hs[s].type = "HELP_REQUEST"
    /\ Reply(s, "HelpProvided", "help")

\* lines 132-137
NewListing(s) ==
    /\ hs[s].pc = "incoming"
    /\ hs[s].type = "NEW_LISTING"
    /\ Reply(s, "ListingCreated", "listing_received")

\* lines 139-144
UnknownIntent(s) ==
    /\ hs[s].pc = "incoming"
    /\ hs[s].type = "UNKNOWN"
    /\ Reply(s, "UnknownIntent", "not_understood")

\* sendSms resolved: the branch's event is appended through safeHcsLog
SmsSent(s) ==
    /\ hs[s].pc = "sms"
    /\ hs' = [hs EXCEPT ![s].pc = "log", ![s].log = Append(@, hs[s].event)]
    /\ approveOut' = NoApprove
    /\ webhookOut' = NoAnswer
    /\ UNCHANGED <<router, env, tool, report, sched, hcs, pendingByOtp, queue, timer, now, tk, consumed, hist>>

\* mutant: the return path also runs pendingByOtp.delete(otp)
EventLogged_Deletes(s) ==
    /\ hs[s].pc = "log"
    /\ hs' = [hs EXCEPT ![s].pc = "done"]
    /\ pendingByOtp' = pendingDelete(pendingByOtp, hs[s].otp)
    /\ approveOut' = NoApprove
    /\ webhookOut' = NoAnswer
    /\ UNCHANGED <<router, env, tool, report, sched, hcs, queue, timer, now, tk, consumed, hist>>

\* safeHcsLog settled: the ledger took the entry, or it did not (logToHCS returned
\* without a client, or rejected and was caught at lines 44-46); handleIntent returns
EventLogged(s) ==
    /\ hs[s].pc = "log"
    /\ hs' = [hs EXCEPT ![s].pc = "done"]
    /\ \E ok \in BOOLEAN : hcs' = IF ok THEN Appended(hcs, hs[s].event) ELSE hcs
    /\ approveOut' = NoApprove
    /\ webhookOut' = NoAnswer
    /\ UNCHANGED <<router, env, tool, report, sched, pendingByOtp, queue, timer, now, tk, consumed, hist>>

\* mutant: the catch block answers as if the message had been handled
Respond_AlwaysReceived(s) ==
    /\ hs[s].pc \in {"done", "threw"}
    /\ hs' = [hs EXCEPT ![s] = IdleHandler]
    /\ approveOut' = NoApprove
    /\ webhookOut' = [to |-> s, status |-> "received", message |-> ""]
    /\ UNCHANGED <<router, env, tool, report, sched, hcs, pendingByOtp, queue, timer, now, tk, consumed, hist>>

\* index.ts:61-74: the webhook answers, "received" or, in the catch, "error"
Respond(s) ==
    /\ hs[s].pc \in {"done", "threw"}
    /\ hs' = [hs EXCEPT ![s] = IdleHandler]
    /\ approveOut' = NoApprove
    /\ webhookOut' = IF hs[s].pc = "done"
                     THEN [to |-> s, status |-> "received", message |-> ""]
                     ELSE [to |-> s, status |-> "error", message |-> "unable_to_process"]
    /\ UNCHANGED <<router, env, tool, report, sched, hcs, pendingByOtp, queue, timer, now, tk, consumed, hist>>

----------------------------------------------------------------------------
(* Task planner: planner.ts *)

\* lines 34-36: arm the periodic timer once
initPlanner ==
    /\ ~timer
    /\ timer' = TRUE
    /\ approveOut' = NoApprove
    /\ webhookOut' = NoAnswer
    /\ UNCHANGED <<router, env, tool, report, sched, hcs, pendingByOtp, queue, now, hs, tk, consumed, hist>>

\* lines 69-85: enqueueReleaseEscrow called as handleIntent.ts:95-100 calls it, with
\* the parties of a stored delivery; the caller awaits the TaskEnqueued append
enqueueReleaseEscrow(otp, amount, cap) ==
    /\ Len(queue) < cap
    /\ now <= MaxNow
    /\ env.FARMER_ACCOUNT_ID # ""
    /\ env.BUYER_ACCOUNT_ID # ""
    /\ queue' = Append(queue, NewTask(Len(queue) + 1, otp, amount, env.FARMER_ACCOUNT_ID,
                                      env.BUYER_ACCOUNT_ID, env.REQUIRE_OPERATOR_APPROVAL, now))
    /\ hist' = Append(hist, NewHist(now, FALSE))
    /\ approveOut' = NoApprove
    /\ webhookOut' = NoAnswer
    /\ UNCHANGED <<router, env, tool, report, sched, hcs, pendingByOtp, timer, now, hs, tk, consumed>>

\* line 49: queue.find(q => q.id === id), 0 when there is none
FindById(q, id) ==
    IF \E i \in 1..Len(q) : q[i].id = id
    THEN CHOOSE i \in 1..Len(q) : q[i].id = id /\ \A j \in 1..(i - 1) : q[j].id # id
    ELSE 0

\* mutant: the status check of lines 52-54 is missing
approveRefusal_NoStatusCheck(q, id) ==
    IF FindById(q, id) = 0 THEN "not_found" ELSE "none"

\* lines 50-54: the request is refused, with 404 or 400
approveRefusal(q, id) ==
    IF FindById(q, id) = 0 THEN "not_found"
    ELSE IF q[FindById(q, id)].status # "waiting_approval" THEN "bad_status"
    ELSE "none"

\* lines 56-57: the approved task
approveTask(t, n) == [t EXCEPT !.status = "pending", !.nextRunAt = n]

\* lines 47-60: POST /api/approve; ok is the outcome of the TaskApproved append,
\* whose rejection leaves the request unanswered
approve(id, ok) ==
    /\ IF approveRefusal(queue, id) # "none"
       THEN /\ approveOut' = [id |-> id, out |-> approveRefusal(queue, id)]
            /\ UNCHANGED <<queue, hist>>
       ELSE LET i == FindById(queue, id)
            IN /\ queue' = [queue EXCEPT ![i] = approveTask(queue[i], now)]
               /\ hist' = [hist EXCEPT ![i].approved = TRUE]
               /\ approveOut' = [id |-> id, out |-> IF ok THEN "ok" ELSE "rejected"]
    /\ webhookOut' = NoAnswer
    /\ UNCHANGED <<router, env, tool, report, sched, hcs, pendingByOtp, timer, now, hs, tk, consumed>>

\* mutant: a task waiting for approval is taken as runnable
Due_IgnoresApproval(t, n) ==
    t.status \in {"pending", "failed", "waiting_approval"} /\ t.nextRunAt <= n

\* mutant: nextRunAt is not compared with the clock
Due_IgnoresTime(t, n) == t.status \in {"pending", "failed"}

\* line 97: the find predicate
Due(t, n) == t.status \in {"pending", "failed"} /\ t.nextRunAt <= n

\* mutant: the last due task is taken instead of the first
FirstDue_Last(q, n) ==
    IF \E i \in 1..Len(q) : Due(q[i], n)
    THEN CHOOSE i \in 1..Len(q) : Due(q[i], n) /\ \A j \in (i + 1)..Len(q) : ~Due(q[j], n)
    ELSE 0

\* line 97: queue.find returns the first match in array order, 0 when there is none
FirstDue(q, n) ==
    IF \E i \in 1..Len(q) : Due(q[i], n)
    THEN CHOOSE i \in 1..Len(q) : Due(q[i], n) /\ \A j \in 1..(i - 1) : ~Due(q[j], n)
    ELSE 0

\* mutant: every due task is marked running (filter instead of find)
markRunning_AllDue(q, i) ==
    [j \in 1..Len(q) |-> IF Due(q[j], now) THEN [q[j] EXCEPT !.status = "running"] ELSE q[j]]

\* line 101: task.status = 'running' on the task found
markRunning(q, i) == [q EXCEPT ![i].status = "running"]

\* lines 94-102: tick() starts, called by source k: the interval timer (line 36,
\* once armed) or POST /api/queue/run (line 63); with no due task it returns at once, otherwise
\* the task is marked running and tick suspends on the TaskRunning append
tickStart(k, cap) ==
    /\ tk[k].pc = "idle"
    /\ k = "timer" => timer
    /\ LET i == FirstDue(queue, now)
       IN IF i = 0
          THEN UNCHANGED <<queue, tk>>
          ELSE /\ queue[i].attempts < cap
               /\ queue' = markRunning(queue, i)
               /\ tk' = [tk EXCEPT ![k] = [pc |-> "logRunning", task |-> i]]
    /\ approveOut' = NoApprove
    /\ webhookOut' = NoAnswer
    /\ UNCHANGED <<router, env, tool, report, sched, hcs, pendingByOtp, timer, now, hs, consumed, hist>>

\* mutant: the backoff is not doubled after a retryable failure
failTask_NoDoubling(t, n) ==
    IF t.attempts + 1 >= t.maxAttempts
    THEN [t EXCEPT !.attempts = t.attempts + 1, !.status = "failed"]
    ELSE [t EXCEPT !.attempts = t.attempts + 1, !.status = "failed",
                   !.nextRunAt = n + t.backoffMs]

\* lines 116-123: the catch block's update of the task
failTask(t, n) ==
    IF t.attempts + 1 >= t.maxAttempts
    THEN [t EXCEPT !.attempts = t.attempts + 1, !.status = "failed"]
    ELSE [t EXCEPT !.attempts = t.attempts + 1, !.status = "failed",
                   !.nextRunAt = n + t.backoffMs,
                   !.backoffMs = Min(t.backoffMs * 2, BACKOFF_CAP_MS)]

\* lines 124-126: the nextRunInMs field of the TaskRetryScheduled event; the argument
\* is evaluated after lines 121-122 have updated the task
nextRunInMs(t) == t.backoffMs

\* lines 115-127: an await inside the try rejected; the catch block updates the
\* task and suspends on the TaskFailed or TaskRetryScheduled append
catch(k) ==
    LET i == tk[k].task
        t == queue[i]
        terminal == t.attempts + 1 >= t.maxAttempts
    IN /\ queue' = [queue EXCEPT ![i] = failTask(t, now)]
       /\ hist' = [hist EXCEPT ![i] =
                     IF terminal THEN @
                     ELSE [@ EXCEPT !.failAt = now, !.failBackoff = t.backoffMs]]
       /\ tk' = [tk EXCEPT ![k].pc = IF terminal THEN "logFailed" ELSE "logRetry"]

\* lines 102-107: the TaskRunning append settled; on success the release action
\* simulateEscrowRelease is called
runningLogged(k, ok) ==
    /\ tk[k].pc = "logRunning"
    /\ IF ok
       THEN /\ tk' = [tk EXCEPT ![k].pc = "release"]
            /\ UNCHANGED <<queue, hist>>
       ELSE catch(k)
    /\ approveOut' = NoApprove
    /\ webhookOut' = NoAnswer
    /\ UNCHANGED <<router, env, tool, report, sched, hcs, pendingByOtp, timer, now, hs, consumed>>

\* lines 107-108: the release action settled; on success the TaskDone append starts
releaseSettled(k, ok) ==
    /\ tk[k].pc = "release"
    /\ IF ok
       THEN /\ tk' = [tk EXCEPT ![k].pc = "logDone"]
            /\ hist' = [hist EXCEPT ![tk[k].task].released = TRUE]
            /\ UNCHANGED queue
       ELSE catch(k)
    /\ hcs' = IF ok THEN Appended(hcs, releaseLabel(env)) ELSE hcs
    /\ approveOut' = NoApprove
    /\ webhookOut' = NoAnswer
    /\ UNCHANGED <<router, env, tool, report, sched, pendingByOtp, timer, now, hs, consumed>>

\* mutant: a finished task is taken out of the queue
markDone_Removes(q, i) == SubSeq(q, 1, i - 1) \o SubSeq(q, i + 1, Len(q))

\* mutant: the finished task keeps the status running
markDone_KeepsRunning(q, i) == q

\* line 109: task.status = 'done'; the task stays where it is in the queue
markDone(q, i) == [q EXCEPT ![i].status = "done"]

\* lines 108-110: the TaskDone append settled; on success the task is done
doneLogged(k, ok) ==
    /\ tk[k].pc = "logDone"
    /\ IF ok
       THEN /\ queue' = markDone(queue, tk[k].task)
            /\ tk' = [tk EXCEPT ![k] = IdleTick]
            /\ UNCHANGED hist
       ELSE catch(k)
    /\ approveOut' = NoApprove
    /\ webhookOut' = NoAnswer
    /\ UNCHANGED <<router, env, tool, report, sched, hcs, pendingByOtp, timer, now, hs, consumed>>

\* lines 119, 124-128: the append made in the catch block settled; tick returns,
\* or rejects when the append did
failureLogged(k, ok) ==
    /\ tk[k].pc \in {"logFailed", "logRetry"}
    /\ tk' = [tk EXCEPT ![k] = IF ok THEN IdleTick ELSE [@ EXCEPT !.pc = "rejected"]]
    /\ approveOut' = NoApprove
    /\ webhookOut' = NoAnswer
    /\ UNCHANGED <<router, env, tool, report, sched, hcs, pendingByOtp, queue, timer, now, hs, consumed, hist>>

\* lines 36, 63: the promise of tick() rejected and nothing in tick caught it; the
\* caller (the interval timer, or the route, which then sends no response) has no
\* handler for it; what the runtime does with the unhandled rejection is not modelled
tickRejected(k) ==
    /\ tk[k].pc = "rejected"
    /\ tk' = [tk EXCEPT ![k] = IdleTick]
    /\ approveOut' = NoApprove
    /\ webhookOut' = NoAnswer
    /\ UNCHANGED <<router, env, tool, report, sched, hcs, pendingByOtp, queue, timer, now, hs, consumed, hist>>

----------------------------------------------------------------------------
(* Agent tools: tools.ts *)

\* tools.ts:44: the arguments are usable
toolAccepts(farmerId, buyerId, amount) ==
    /\ farmerId # ""
    /\ buyerId # ""
    /\ amount # 0
    /\ amount > 0

\* tools.ts:37-47: escrowReleaseTool refuses unusable arguments (lines 44-46) or
\* calls the release action simulateEscrowRelease and suspends on it
escrowReleaseTool(farmerId, buyerId, amount) ==
    /\ tool.pc = "idle"
    /\ tool' = IF toolAccepts(farmerId, buyerId, amount)
               THEN [pc |-> "release", amount |-> amount, out |-> "none"]
               ELSE [IdleTool EXCEPT !.out = "invalid"]
    /\ approveOut' = NoApprove
    /\ webhookOut' = NoAnswer
    /\ UNCHANGED <<router, env, report, sched, hcs, pendingByOtp, queue, timer, now, hs, tk, consumed, hist>>

\* tools.ts:47-51: the release action settled; a rejection is caught and returned
toolReleaseSettled(ok) ==
    /\ tool.pc = "release"
    /\ tool' = [IdleTool EXCEPT !.out = IF ok THEN "ok" ELSE "error"]
    /\ hcs' = IF ok THEN Appended(hcs, releaseLabel(env)) ELSE hcs
    /\ approveOut' = NoApprove
    /\ webhookOut' = NoAnswer
    /\ UNCHANGED <<router, env, report, sched, pendingByOtp, queue, timer, now, hs, tk, consumed, hist>>

----------------------------------------------------------------------------
(* Daily report: report.ts. Times are epoch milliseconds; a message of the   *)
(* topic is identified by its consensus timestamp.                            *)

\* the mirror node's page size in the model (limit = 500 at line 9)
PageLimit == 2
\* the interval timer's firings followed after the first run
MaxRuns == 3

DayMs == 86400000
HourMs == 3600000
MinuteMs == 60000
SecondMs == 1000
FiveMinutesMs == 300000

\* consensus timestamps around the two ends of the UTC day [DayMs, 2 * DayMs)
Stamps ==
    {SecondMs, DayMs - 1, DayMs, DayMs + 12 * HourMs, 2 * DayMs - 1, 2 * DayMs}

\* values of new Date() or forDateUTC when a report is run: within the day after
\* that window (its first and last instant, 00:05) and at noon of the window's day
ForDates == {2 * DayMs, 2 * DayMs + FiveMinutesMs, 3 * DayMs - 1, DayMs + 12 * HourMs}

\* values of new Date() when the scheduler is started
StartTimes ==
    {2 * DayMs, 2 * DayMs + FiveMinutesMs - 1, 2 * DayMs + FiveMinutesMs,
     2 * DayMs + FiveMinutesMs + 1, 2 * DayMs + 12 * HourMs, 3 * DayMs - 1}

Oldest(S) == CHOOSE x \in S : \A y \in S : x <= y
Newest(S) == CHOOSE x \in S : \A y \in S : y <= x

RECURSIVE Ascending(_)
Ascending(S) == IF S = {} THEN <<>> ELSE <<Oldest(S)>> \o Ascending(S \ {Oldest(S)})

RECURSIVE Descending(_)
Descending(S) == IF S = {} THEN <<>> ELSE <<Newest(S)>> \o Descending(S \ {Newest(S)})

\* the topics the mirror node may serve: messages ordered by consensus timestamp,
\* oldest first or newest first (the URL of line 13 names no order)
Mirrors == {Ascending(S) : S \in SUBSET Stamps} \cup {Descending(S) : S \in SUBSET Stamps}

\* line 21: Number(String(m.consensus_timestamp).split('.')[0]), the seconds
SecOf(at) == at \div SecondMs

\* line 109: Date.UTC(year, month, date, 0, 0, 0) of an instant
UtcDayStart(t) == t - (t % DayMs)

\* getUTCHours() and getUTCMinutes() of an instant
UtcHours(t) == (t % DayMs) \div HourMs
UtcMinutes(t) == (t % HourMs) \div MinuteMs

\* the p-th page of the topic, and whether the page comes with links.next (the
\* mirror node sends the link with every full page)
Page(mirror, p) ==
    SubSeq(mirror, (p - 1) * PageLimit + 1, Min(p * PageLimit, Len(mirror)))

HasNext(mirror, p) == Len(Page(mirror, p)) = PageLimit

\* lines 20-28: the messages of a page kept by fetchTopicMessagesSince
Kept(pg, sinceEpochSeconds) ==
    LET msg(i) == [ts |-> SecOf(pg[i]), at |-> pg[i]]
        all == [i \in 1..Len(pg) |-> msg(i)]
    IN SelectSeq(all, LAMBDA m : m.ts >= sinceEpochSeconds)

\* line 114: msgs.filter(m => m.ts >= startSec && m.ts < Math.floor(end / 1000))
withinDay(msgs, startSec, endSec) ==
    SelectSeq(msgs, LAMBDA m : m.ts >= startSec /\ m.ts < endSec)

ReportInFlight == report.pc \in {"get", "logReport"}

\* lines 102-113 and 9-19: runDailyReport computes the window of the day before
\* d's UTC day and fetchTopicMessagesSince requests the first page
startReport(d) ==
    LET end == UtcDayStart(d)
        start == end - DayMs
    IN [report EXCEPT !.pc = "get", !.forDate = d,
                      !.startSec = start \div SecondMs, !.endSec = end \div SecondMs,
                      !.page = 1, !.out = <<>>, !.withinDay = <<>>]

\* POST /api/report/run (lines 162-169), or a direct call with forDateUTC
runDailyReport(d) ==
    /\ ~ReportInFlight
    /\ report' = startReport(d)
    /\ approveOut' = NoApprove
    /\ webhookOut' = NoAnswer
    /\ UNCHANGED <<router, env, tool, sched, hcs, pendingByOtp, queue, timer, now, hs, tk, consumed, hist>>

\* lines 19-37: a page arrived; its messages since the window's start are kept;
\* the loop ends on an empty page, on a page whose last message is older than the
\* window's start, or without links.next; then lines 114-120: the messages are
\* filtered to the window, summarized, and the DailyReport append starts
pageReceived ==
    /\ report.pc = "get"
    /\ LET pg == Page(report.mirror, report.page)
           out == report.out \o Kept(pg, report.startSec)
           stop == \/ pg = <<>>
                   \/ SecOf(pg[Len(pg)]) < report.startSec
                   \/ ~HasNext(report.mirror, report.page)
       IN report' = IF stop
                    THEN [report EXCEPT !.pc = "logReport", !.out = out,
                                        !.withinDay = withinDay(out, report.startSec,
                                                                report.endSec)]
                    ELSE [report EXCEPT !.page = @ + 1, !.out = out]
    /\ approveOut' = NoApprove
    /\ webhookOut' = NoAnswer
    /\ UNCHANGED <<router, env, tool, sched, hcs, pendingByOtp, queue, timer, now, hs, tk, consumed, hist>>

\* lines 120-133: the DailyReport append settled: the report is saved and returned,
\* or runDailyReport rejects (both callers catch that)
reportLogged(ok) ==
    /\ report.pc = "logReport"
    /\ report' = [report EXCEPT !.pc = IF ok THEN "done" ELSE "error"]
    /\ approveOut' = NoApprove
    /\ webhookOut' = NoAnswer
    /\ UNCHANGED <<router, env, tool, sched, hcs, pendingByOtp, queue, timer, now, hs, tk, consumed, hist>>

\* lines 140-146: the first run's time, computed at instant t
firstRunAt(t) ==
    LET next == UtcDayStart(t) + FiveMinutesMs
    IN IF UtcHours(t) >= 0 \/ (UtcHours(t) = 0 /\ UtcMinutes(t) >= 5)
       THEN next + DayMs
       ELSE next

\* lines 137-157: startDailyReportScheduler called at instant t arms the one-shot
\* timer with the delay next - now
startDailyReportScheduler(t) ==
    /\ sched.pc = "off"
    /\ LET delay == firstRunAt(t) - t
       IN sched' = [sched EXCEPT !.pc = "armed", !.startedAt = t, !.first = t + delay]
    /\ approveOut' = NoApprove
    /\ webhookOut' = NoAnswer
    /\ UNCHANGED <<router, env, tool, report, hcs, pendingByOtp, queue, timer, now, hs, tk, consumed, hist>>

\* lines 149-154: the one-shot timer fires (timers fire when due): runDailyReport()
\* is called with the current instant and the 24-hour interval timer is armed; the
\* run before it is taken to have settled
schedulerTimeout ==
    /\ sched.pc = "armed"
    /\ ~ReportInFlight
    /\ sched' = [sched EXCEPT !.pc = "repeating", !.last = sched.first, !.runs = 1]
    /\ report' = startReport(sched.first)
    /\ approveOut' = NoApprove
    /\ webhookOut' = NoAnswer
    /\ UNCHANGED <<router, env, tool, hcs, pendingByOtp, queue, timer, now, hs, tk, consumed, hist>>

\* lines 152-154: the interval timer fires, 24 * 3600 * 1000 ms after the last firing
schedulerInterval ==
    /\ sched.pc = "repeating"
    /\ sched.runs < MaxRuns
    /\ ~ReportInFlight
    /\ sched' = [sched EXCEPT !.last = @ + DayMs, !.runs = @ + 1]
    /\ report' = startReport(sched.last + DayMs)
    /\ approveOut' = NoApprove
    /\ webhookOut' = NoAnswer
    /\ UNCHANGED <<router, env, tool, hcs, pendingByOtp, queue, timer, now, hs, tk, consumed, hist>>

----------------------------------------------------------------------------
(* The clock: Date.now() is monotonic; it moves by one step, or to the next   *)
(* scheduled run of a task                                                    *)

ClockStep == 1500

advanceClock ==
    /\ \E t \in ({now + ClockStep} \cap 0..MaxNow)
                  \cup {queue[i].nextRunAt : i \in 1..Len(queue)} :
          /\ t > now
          /\ now' = t
    /\ approveOut' = NoApprove
    /\ webhookOut' = NoAnswer
    /\ UNCHANGED <<router, env, tool, report, sched, hcs, pendingByOtp, queue, timer, hs, tk, consumed, hist>>

----------------------------------------------------------------------------

Next ==
    \/ \E s \in Senders, i \in Intents : Receive(s, i)
    \/ \E s \in Senders : DeliveryRejected(s)
    \/ \E s \in Senders : DeliveryNotStored(s)
    \/ \E s \in Senders : DeliveryStored(s)
    \/ \E s \in Senders : ConfirmMissingOtp(s)
    \/ \E s \in Senders : ConfirmNoPending(s)
    \/ \E s \in Senders : ConfirmEnqueue(s)
    \/ \E s \in Senders, ok \in BOOLEAN : EnqueueLogged(s, ok)
    \/ \E s \in Senders : EscrowEventLogged(s)
    \/ \E s \in Senders : ConfirmSmsSent(s)
    \/ \E s \in Senders : HelpRequest(s)
    \/ \E s \in Senders : NewListing(s)
    \/ \E s \in Senders : UnknownIntent(s)
    \/ \E s \in Senders : SmsSent(s)
    \/ \E s \in Senders : EventLogged(s)
    \/ \E s \in Senders : Respond(s)
    \/ initPlanner
    \/ \E id \in 1..(MaxQueue + 1), ok \in BOOLEAN : approve(id, ok)
    \/ \E k \in Sources : tickStart(k, AttemptCap)
    \/ \E k \in Sources, ok \in BOOLEAN : runningLogged(k, ok)
    \/ \E k \in Sources, ok \in BOOLEAN : releaseSettled(k, ok)
    \/ \E k \in Sources, ok \in BOOLEAN : doneLogged(k, ok)
    \/ \E k \in Sources, ok \in BOOLEAN : failureLogged(k, ok)
    \/ \E k \in Sources : tickRejected(k)
    \/ \E f \in AccountIds, b \in AccountIds, a \in Qtys : escrowReleaseTool(f, b, a)
    \/ \E ok \in BOOLEAN : toolReleaseSettled(ok)
    \/ advanceClock

\* every operation of the system, requests and ticks interleaved at their awaits
Spec == Init /\ [][Next]_vars

\* requests handled one at a time: a webhook request is accepted only when no
\* other is in flight; the planner's timer is not armed and its routes not called
NoRequestInFlight == \A s \in Senders : hs[s].pc = "idle"

NextSeq ==
    \/ \E s \in Senders, i \in Intents : NoRequestInFlight /\ Receive(s, i)
    \/ \E s \in Senders : DeliveryRejected(s)
    \/ \E s \in Senders : DeliveryNotStored(s)
    \/ \E s \in Senders : DeliveryStored(s)
    \/ \E s \in Senders : ConfirmMissingOtp(s)
    \/ \E s \in Senders : ConfirmNoPending(s)
    \/ \E s \in Senders : ConfirmEnqueue(s)
    \/ \E s \in Senders, ok \in BOOLEAN : EnqueueLogged(s, ok)
    \/ \E s \in Senders : EscrowEventLogged(s)
    \/ \E s \in Senders : ConfirmSmsSent(s)
    \/ \E s \in Senders : HelpRequest(s)
    \/ \E s \in Senders : NewListing(s)
    \/ \E s \in Senders : UnknownIntent(s)
    \/ \E s \in Senders : SmsSent(s)
    \/ \E s \in Senders : EventLogged(s)
    \/ \E s \in Senders : Respond(s)

SpecSeq == Init /\ [][NextSeq]_vars

\* the workflow engine with requests interleaved at their awaits, on the intents
\* about one code; the planner's timer is not armed and its routes not called
NextWorkflow ==
    \/ \E s \in Senders, i \in IntentsOne : Receive(s, i)
    \/ \E s \in Senders : DeliveryRejected(s)
    \/ \E s \in Senders : DeliveryNotStored(s)
    \/ \E s \in Senders : DeliveryStored(s)
    \/ \E s \in Senders : ConfirmMissingOtp(s)
    \/ \E s \in Senders : ConfirmNoPending(s)
    \/ \E s \in Senders : ConfirmEnqueue(s)
    \/ \E s \in Senders, ok \in BOOLEAN : EnqueueLogged(s, ok)
    \/ \E s \in Senders : EscrowEventLogged(s)
    \/ \E s \in Senders : ConfirmSmsSent(s)
    \/ \E s \in Senders : HelpRequest(s)
    \/ \E s \in Senders : NewListing(s)
    \/ \E s \in Senders : UnknownIntent(s)
    \/ \E s \in Senders : SmsSent(s)
    \/ \E s \in Senders : EventLogged(s)
    \/ \E s \in Senders : Respond(s)

SpecWorkflow == Init /\ [][NextWorkflow]_vars

\* the planner alone, on up to MaxQueue tasks of up to RetryCap attempts:
\* enqueue, approve, ticks from the timer and from POST /api/queue/run, and the
\* clock, interleaved at the awaits
NextPlanner ==
    \/ enqueueReleaseEscrow("553904", 200, MaxQueue)
    \/ initPlanner
    \/ \E id \in 1..(MaxQueue + 1), ok \in BOOLEAN : approve(id, ok)
    \/ \E k \in Sources : tickStart(k, RetryCap)
    \/ \E k \in Sources, ok \in BOOLEAN : runningLogged(k, ok)
    \/ \E k \in Sources, ok \in BOOLEAN : releaseSettled(k, ok)
    \/ \E k \in Sources, ok \in BOOLEAN : doneLogged(k, ok)
    \/ \E k \in Sources, ok \in BOOLEAN : failureLogged(k, ok)
    \/ \E k \in Sources : tickRejected(k)
    \/ advanceClock

SpecPlanner == Init /\ [][NextPlanner]_vars

\* one task retried up to AttemptCap attempts while the ledger is reachable:
\* every append made by tick resolves, only the release action may reject
NextRetry ==
    \/ enqueueReleaseEscrow("553904", 200, 1)
    \/ initPlanner
    \/ \E ok \in BOOLEAN : approve(1, ok)
    \/ \E k \in Sources : tickStart(k, AttemptCap)
    \/ \E k \in Sources : runningLogged(k, TRUE)
    \/ \E k \in Sources, ok \in BOOLEAN : releaseSettled(k, ok)
    \/ \E k \in Sources : doneLogged(k, TRUE)
    \/ \E k \in Sources : failureLogged(k, TRUE)
    \/ advanceClock

SpecRetry == Init /\ [][NextRetry]_vars

\* the planner on one task together with direct calls of the agent tool
NextTools ==
    \/ enqueueReleaseEscrow("553904", 200, 1)
    \/ initPlanner
    \/ \E ok \in BOOLEAN : approve(1, ok)
    \/ \E k \in Sources : tickStart(k, RetryCap)
    \/ \E k \in Sources : runningLogged(k, TRUE)
    \/ \E k \in Sources, ok \in BOOLEAN : releaseSettled(k, ok)
    \/ \E k \in Sources : doneLogged(k, TRUE)
    \/ \E k \in Sources : failureLogged(k, TRUE)
    \/ \E f \in AccountIds, b \in AccountIds, a \in Qtys : escrowReleaseTool(f, b, a)
    \/ \E ok \in BOOLEAN : toolReleaseSettled(ok)
    \/ advanceClock

SpecTools == Init /\ [][NextTools]_vars

\* one step of the handling of sender s's webhook request, from one await to the
\* next (handleIntent.ts:50-146)
handleIntentStep(s) ==
    \/ DeliveryRejected(s)
    \/ DeliveryNotStored(s)
    \/ DeliveryStored(s)
    \/ ConfirmMissingOtp(s)
    \/ ConfirmNoPending(s)
    \/ ConfirmEnqueue(s)
    \/ \E ok \in BOOLEAN : EnqueueLogged(s, ok)
    \/ EscrowEventLogged(s)
    \/ ConfirmSmsSent(s)
    \/ HelpRequest(s)
    \/ NewListing(s)
    \/ UnknownIntent(s)
    \/ SmsSent(s)
    \/ EventLogged(s)
    \/ Respond(s)

\* index.ts:42-60: POST /webhook/sms hands the parsed intent to handleIntent, one
\* request at a time; a confirmation arrives only while the model's queue has room
webhookSms(s, i) ==
    /\ NoRequestInFlight
    /\ i.type = "BUYER_CONFIRM" => Len(queue) < MaxQueue
    /\ Receive(s, i)

\* the server as index.ts starts it: the webhook route and registerApiRoutes are
\* mounted and the server listens (lines 42-91); initPlanner and
\* registerPlannerRoutes are exported by planner.ts and called nowhere, so the
\* interval timer is never armed and POST /api/queue/run is not mounted: no
\* source of tick exists. Requests are handled one after the other, on the
\* intents about one code; every awaited call settles, the clock advances and
\* requests keep arriving.
NextServer ==
    \/ \E s \in Senders, i \in IntentsOne : webhookSms(s, i)
    \/ \E s \in Senders : handleIntentStep(s)
    \/ advanceClock

SpecServer ==
    /\ Init
    /\ [][NextServer]_vars
    /\ WF_vars(advanceClock)
    /\ \A s \in Senders : WF_vars(handleIntentStep(s))
    /\ WF_vars(\E s \in Senders, i \in IntentsOne : webhookSms(s, i))

\* the daily report run on request, over every topic the mirror node may serve
InitReport ==
    /\ InitProgram
    /\ report \in {[IdleReport EXCEPT !.mirror = m] : m \in Mirrors}
    /\ router = IdleRouter

NextReport ==
    \/ \E d \in ForDates : runDailyReport(d)
    \/ pageReceived
    \/ \E ok \in BOOLEAN : reportLogged(ok)

SpecReport == InitReport /\ [][NextReport]_vars

\* the report scheduler, started at any time of day
NextSched ==
    \/ \E t \in StartTimes : startDailyReportScheduler(t)
    \/ schedulerTimeout
    \/ schedulerInterval
    \/ pageReceived
    \/ \E ok \in BOOLEAN : reportLogged(ok)

SpecSched == Init /\ [][NextSched]_vars

\* the planner in which every awaited call of a tick settles (weak fairness of each
\* settling step); nothing is assumed about when ticks start; the approvals are
\* those of queued tasks whose TaskApproved append resolves
NextSettle ==
    \/ enqueueReleaseEscrow("553904", 200, MaxQueue)
    \/ initPlanner
    \/ \E id \in 1..MaxQueue : approve(id, TRUE)
    \/ \E k \in Sources : tickStart(k, RetryCap)
    \/ \E k \in Sources, ok \in BOOLEAN : runningLogged(k, ok)
    \/ \E k \in Sources, ok \in BOOLEAN : releaseSettled(k, ok)
    \/ \E k \in Sources, ok \in BOOLEAN : doneLogged(k, ok)
    \/ \E k \in Sources, ok \in BOOLEAN : failureLogged(k, ok)
    \/ \E k \in Sources : tickRejected(k)
    \/ advanceClock

SpecSettle ==
    /\ Init
    /\ [][NextSettle]_vars
    /\ \A k \in Sources :
          /\ WF_vars(\E ok \in BOOLEAN : runningLogged(k, ok))
          /\ WF_vars(\E ok \in BOOLEAN : releaseSettled(k, ok))
          /\ WF_vars(\E ok \in BOOLEAN : doneLogged(k, ok))

\* two tasks run by the interval timer up to AttemptCap attempts: every append of
\* tick resolves, the release action may reject; the clock advances, the timer
\* keeps firing and every awaited call settles
NextStarve ==
    \/ enqueueReleaseEscrow("553904", 200, MaxQueue)
    \/ initPlanner
    \/ tickStart("timer", AttemptCap)
    \/ runningLogged("timer", TRUE)
    \/ \E ok \in BOOLEAN : releaseSettled("timer", ok)
    \/ doneLogged("timer", TRUE)
    \/ failureLogged("timer", TRUE)
    \/ advanceClock

SpecStarve ==
    /\ Init
    /\ [][NextStarve]_vars
    /\ WF_vars(advanceClock)
    /\ WF_vars(initPlanner)
    /\ WF_vars(tickStart("timer", AttemptCap))
    /\ WF_vars(runningLogged("timer", TRUE))
    /\ WF_vars(\E ok \in BOOLEAN : releaseSettled("timer", ok))
    /\ WF_vars(doneLogged("timer", TRUE))
    /\ WF_vars(failureLogged("timer", TRUE))

\* the whole flow on one code: deliveries and confirmations handled one after the
\* other, and the planner's timer running the tasks they enqueue (no operator
\* approves: with approval required the tasks wait); the release action and
\* every append made by tick succeed
NextFlow ==
    \/ \E s \in Senders, i \in IntentsOne : NoRequestInFlight /\ Receive(s, i)
    \/ \E s \in Senders : handleIntentStep(s)
    \/ initPlanner
    \/ tickStart("timer", RetryCap)
    \/ runningLogged("timer", TRUE)
    \/ releaseSettled("timer", TRUE)
    \/ doneLogged("timer", TRUE)
    \/ advanceClock

SpecFlow == Init /\ [][NextFlow]_vars

\* one task, a release action that always succeeds, a ledger that may reject any
\* append; the clock advances, ticks keep being invoked and every awaited call
\* settles (weak fairness of each step)
NextLive ==
    \/ enqueueReleaseEscrow("553904", 200, 1)
    \/ initPlanner
    \/ \E ok \in BOOLEAN : approve(1, ok)
    \/ \E k \in Sources : tickStart(k, AttemptCap)
    \/ \E k \in Sources, ok \in BOOLEAN : runningLogged(k, ok)
    \/ \E k \in Sources : releaseSettled(k, TRUE)
    \/ \E k \in Sources, ok \in BOOLEAN : doneLogged(k, ok)
    \/ \E k \in Sources, ok \in BOOLEAN : failureLogged(k, ok)
    \/ \E k \in Sources : tickRejected(k)
    \/ advanceClock

SpecLive ==
    /\ Init
    /\ [][NextLive]_vars
    /\ WF_vars(advanceClock)
    /\ WF_vars(\E k \in Sources : tickStart(k, AttemptCap))
    /\ \A k \in Sources :
          /\ WF_vars(\E ok \in BOOLEAN : runningLogged(k, ok))
          /\ WF_vars(releaseSettled(k, TRUE))
          /\ WF_vars(\E ok \in BOOLEAN : doneLogged(k, ok))
          /\ WF_vars(\E ok \in BOOLEAN : failureLogged(k, ok))
          /\ WF_vars(tickRejected(k))

----------------------------------------------------------------------------
(* Claims *)

InFlight(k) == tk[k].pc # "idle"

\* C1: with requests handled one at a time, a BuyerConfirm(C) that follows a stored
\* DeliveryConfirmation(C, Q) adds exactly one task, whose payload.amount is Q, and
\* once the BuyerConfirm has finished the store holds no entry for C.
C1_ConfirmConsumes ==
    \A s \in Senders :
        (hs[s].type = "BUYER_CONFIRM" /\ hs[s].pc \in {"done", "threw"} /\ hs[s].st0 > 0)
            => /\ Len(queue) = hs[s].q0 + 1
               /\ queue[Len(queue)].payload.amount = hs[s].st0
               /\ hs[s].otp \notin DOMAIN pendingByOtp

\* C2: a task leaves waiting_approval only by a step of approve on its id, to
\* pending; no step puts a task (back) into waiting_approval; and when approval is
\* required the release action is called only on a task that approve has approved.
C2_ApprovalGate ==
    [][/\ \A i \in 1..Len(queue) :
            /\ (queue[i].status = "waiting_approval" /\ queue'[i].status # "waiting_approval")
                  => /\ approveOut'.id = queue[i].id
                     /\ approveOut'.out \in {"ok", "rejected"}
                     /\ queue'[i].status = "pending"
            /\ queue[i].status # "waiting_approval" => queue'[i].status # "waiting_approval"
       /\ \A k \in Sources :
            (tk[k].pc # "release" /\ tk'[k].pc = "release" /\ env.REQUIRE_OPERATOR_APPROVAL)
                  => hist[tk'[k].task].approved]_vars

C2_Witness ==
    \E k \in Sources :
        /\ tk[k].pc = "release"
        /\ queue[tk[k].task].requiresApproval
        /\ hist[tk[k].task].approved

\* C3: a task that has failed maxAttempts times stays failed: no tick selects it
\* (marks it running) again; stated for tick invocations that do not overlap.
C3_TerminalFailed ==
    Cardinality({k \in Sources : InFlight(k)}) <= 1
        => \A i \in 1..Len(queue) :
              queue[i].attempts >= queue[i].maxAttempts => queue[i].status = "failed"

\* C4: two BuyerConfirm requests for the same code, both in flight and neither
\* aborted, never both create a task from one stored pending delivery.
C4_ConsumedOnce ==
    \A s1, s2 \in Senders :
        (/\ s1 # s2
         /\ hs[s1].type = "BUYER_CONFIRM" /\ hs[s2].type = "BUYER_CONFIRM"
         /\ hs[s1].otp = hs[s2].otp
         /\ hs[s1].taskId # 0 /\ hs[s2].taskId # 0
         /\ hs[s1].pc # "threw" /\ hs[s2].pc # "threw")
            => ~hist[hs[s1].taskId].dup

\* C5: every step of a BuyerConfirm whose code has no entry in the store at the
\* lookup leaves the queue and the store unchanged and creates no task.
C5_NoPendingNoEffect ==
    [][\A s \in Senders :
          (/\ hs'[s] # hs[s]
           /\ hs[s].type = "BUYER_CONFIRM"
           /\ \/ hs[s].pc = "incoming" /\ hs[s].otp \notin DOMAIN pendingByOtp
              \/ hs[s].event = "BuyerConfirmNoPending")
             => /\ queue' = queue
                /\ pendingByOtp' = pendingByOtp
                /\ hs'[s].taskId = 0
                /\ hs'[s].pc \in {"sms", "log", "done", "idle"}]_vars

\* the code was stored, consumed by an earlier BuyerConfirm, and confirmed again
C5_Witness ==
    \E s \in Senders :
        /\ hs[s].event = "BuyerConfirmNoPending"
        /\ hs[s].pc = "done"
        /\ \E i \in 1..Len(queue) : queue[i].payload.otp = hs[s].otp
        /\ hs[s].otp \notin DOMAIN pendingByOtp

\* C6: approve(id) is refused when no task has that id or the task is not
\* waiting_approval, and then changes no task; on a waiting_approval task it sets
\* status pending and nextRunAt <= now and changes nothing else.
C6_Approve ==
    [][approveOut'.out # "none" =>
          LET id == approveOut'.id
              hit == {i \in 1..Len(queue) : queue[i].id = id}
          IN IF hit = {} \/ \A i \in hit : queue[i].status # "waiting_approval"
             THEN /\ approveOut'.out \in {"not_found", "bad_status"}
                  /\ approveOut'.out = "not_found" <=> hit = {}
                  /\ queue' = queue
             ELSE /\ approveOut'.out \in {"ok", "rejected"}
                  /\ Len(queue') = Len(queue)
                  /\ \A i \in 1..Len(queue) :
                        IF i \in hit
                        THEN /\ queue'[i] = [queue[i] EXCEPT !.status = "pending",
                                                             !.nextRunAt = queue'[i].nextRunAt]
                             /\ queue'[i].nextRunAt <= now'
                        ELSE queue'[i] = queue[i]]_vars

\* a task approved earlier, now running or finished, is approved again and refused
C6_Witness ==
    /\ approveOut.out = "bad_status"
    /\ approveOut.id \in 1..Len(queue)
    /\ hist[approveOut.id].approved
    /\ queue[approveOut.id].status \in {"running", "done", "failed", "pending"}

\* C7: at most one tick invocation is in flight, hence at most one task is running.
C7_NoOverlap ==
    /\ Cardinality({k \in Sources : InFlight(k)}) <= 1
    /\ Cardinality({i \in 1..Len(queue) : queue[i].status = "running"}) <= 1

\* the position of tick inside its body
TickRank(pc) ==
    CASE pc = "idle" -> 0
      [] pc = "logRunning" -> 1
      [] pc = "release" -> 2
      [] pc = "logDone" -> 3
      [] pc \in {"logFailed", "logRetry"} -> 4
      [] pc = "rejected" -> 5

\* C8: every step of one tick invocation changes no task other than the one it
\* selected, which stays the same for the whole invocation, and the invocation
\* only moves forward through its body, so it calls the release action at most once.
C8_OneTaskPerTick ==
    [][\A k \in Sources :
          tk'[k] # tk[k] =>
             LET i == IF InFlight(k) THEN tk[k].task ELSE tk'[k].task
             IN /\ Len(queue') = Len(queue)
                /\ \A j \in 1..Len(queue) : j # i => queue'[j] = queue[j]
                /\ (InFlight(k) /\ tk'[k].pc # "idle")
                      => /\ tk'[k].task = tk[k].task
                         /\ TickRank(tk'[k].pc) > TickRank(tk[k].pc)]_vars

\* a tick is past its release call while another task is due
C8_Witness ==
    \E k \in Sources :
        /\ tk[k].pc = "logDone"
        /\ \E j \in 1..Len(queue) :
              /\ j # tk[k].task
              /\ queue[j].status \in {"pending", "failed"}
              /\ queue[j].nextRunAt <= now

Eligible(i) == queue[i].status \in {"pending", "failed"} /\ queue[i].nextRunAt <= now

\* C9: a tick that selects a task selects the first task in queue order that is
\* pending or failed with nextRunAt <= now, and when no task is so, no tick starts
\* running anything.
C9_SelectsFirstDue ==
    [][/\ \A k \in Sources :
            (~InFlight(k) /\ tk'[k].pc # "idle")
               => /\ tk'[k].task \in 1..Len(queue)
                  /\ Eligible(tk'[k].task)
                  /\ \A j \in 1..(tk'[k].task - 1) : ~Eligible(j)
                  /\ queue'[tk'[k].task].status = "running"
       /\ \A i \in 1..Len(queue) :
            (queue[i].status # "running" /\ queue'[i].status = "running")
               => /\ Eligible(i)
                  /\ \A j \in 1..(i - 1) : ~Eligible(j)
       /\ (~\E i \in 1..Len(queue) : Eligible(i))
               => \A k \in Sources : ~InFlight(k) => tk'[k] = tk[k]]_vars

\* the second task is selected while the first, failed, waits for its retry time
C9_Witness ==
    \E k \in Sources :
        /\ tk[k].pc = "logRunning"
        /\ tk[k].task = 2
        /\ queue[1].status = "failed"
        /\ queue[1].nextRunAt > now

\* C10: when the release action is called for a task, now >= nextRunAt; without
\* approval that is not before enqueue time + AUTO_RELEASE_DELAY_MS, and after a
\* retryable failure not before the failure time + the backoff in force then.
C10_NotBeforeNextRun ==
    [][\A k \in Sources :
          (tk[k].pc # "release" /\ tk'[k].pc = "release") =>
             LET i == tk'[k].task
             IN /\ now >= queue[i].nextRunAt
                /\ ~queue[i].requiresApproval
                      => now >= hist[i].enqAt + AUTO_RELEASE_DELAY_MS
                /\ queue[i].attempts > 0
                      => now >= hist[i].failAt + hist[i].failBackoff]_vars

\* a retry of a task enqueued without approval has reached the release call
C10_Witness ==
    \E k \in Sources :
        /\ tk[k].pc = "release"
        /\ ~queue[tk[k].task].requiresApproval
        /\ queue[tk[k].task].attempts = 1
        /\ hist[tk[k].task].failBackoff = BACKOFF_START_MS

\* the sequence 1500, 3000, 6000, 12000, 24000, 48000, 60000, 60000, ...
RECURSIVE BackoffSeq(_)
BackoffSeq(k) ==
    IF k = 0 THEN BACKOFF_START_MS ELSE Min(2 * BackoffSeq(k - 1), BACKOFF_CAP_MS)

\* C11 as stated: every failure of a task doubles its backoffMs, capped at 60000:
\* after k failures backoffMs is the (k+1)-th value of the sequence.
C11_EveryFailureDoubles ==
    \A i \in 1..Len(queue) : queue[i].backoffMs = BackoffSeq(queue[i].attempts)

\* C11 as the code has it: every retryable failure (attempts below maxAttempts
\* afterwards) doubles backoffMs and the k-th retry is delayed by the k-th value
\* of the sequence; a terminal failure leaves backoffMs as it is, so backoffMs
\* stops at 24000 and the cap of 60000 is never applied.
C11_RetryableFailureDoubles ==
    [][\A i \in 1..Len(queue) :
          queue'[i].attempts # queue[i].attempts =>
             /\ queue'[i].attempts = queue[i].attempts + 1
             /\ queue[i].backoffMs = BackoffSeq(Min(queue[i].attempts, MAX_ATTEMPTS - 1))
             /\ IF queue'[i].attempts < MAX_ATTEMPTS
                THEN /\ queue'[i].backoffMs = BackoffSeq(queue'[i].attempts)
                     /\ queue'[i].nextRunAt = now + BackoffSeq(queue[i].attempts)
                ELSE /\ queue'[i].backoffMs = queue[i].backoffMs
                     /\ queue'[i].backoffMs = BackoffSeq(MAX_ATTEMPTS - 1)
                     /\ queue'[i].nextRunAt = queue[i].nextRunAt]_vars

\* the task has failed terminally and its backoffMs is the fifth value, 24000
C11_Witness ==
    \E i \in 1..Len(queue) :
        /\ queue[i].attempts = MAX_ATTEMPTS
        /\ queue[i].status = "failed"
        /\ queue[i].backoffMs = 16 * BACKOFF_START_MS

\* C12: a rejected ledger append never aborts handleIntent: every handling that
\* ends has ended normally and its sender has been sent the branch's notification.
C12_LogFailureCaught ==
    \A s \in Senders :
        hs[s].pc \in {"done", "threw"} => (hs[s].pc = "done" /\ hs[s].sms # "")

\* C13: inside tick a rejected ledger append (TaskRunning, TaskDone) is swallowed:
\* the step that settles it neither increments attempts nor sets status failed.
C13_LogFailureSwallowed ==
    [][\A k \in Sources :
          (tk[k].pc \in {"logRunning", "logDone"} /\ tk'[k] # tk[k])
             => /\ queue'[tk[k].task].attempts = queue[tk[k].task].attempts
                /\ queue'[tk[k].task].status # "failed"]_vars

\* C14: no failure inside tick is fatal: no invocation of tick ends by a rejection
\* that reaches its caller, and a task is running only while the invocation that
\* selected it is in flight (afterwards it is done or failed).
C14_NoFatalPath ==
    /\ \A k \in Sources : tk[k].pc # "rejected"
    /\ \A i \in 1..Len(queue) :
          queue[i].status = "running" => \E k \in Sources : InFlight(k) /\ tk[k].task = i

\* C15: the release action is executed only by a tick invocation on a task of the
\* queue: whenever a release call is in flight, it is the call of a tick that is
\* at its release step on a running task.
C15_ReleaseOnlyByTick ==
    /\ tool.pc # "release"
    /\ \A k \in Sources :
          tk[k].pc = "release"
             => tk[k].task \in 1..Len(queue) /\ queue[tk[k].task].status = "running"

\* C16: with requests handled one at a time, once a DeliveryConfirmation for code C
\* has been recorded the store holds for C the entry of that (latest) message,
\* quantity, unit and grade, whatever an earlier delivery stored for C; the store
\* is a map from codes, so it holds one entry per code.
C16_LastDeliveryWins ==
    /\ DOMAIN pendingByOtp \subseteq Codes
    /\ \A s \in Senders :
          (hs[s].type = "DELIVERY_CONFIRMATION" /\ hs[s].event = "DeliveryRecorded")
             => /\ hs[s].otp \in DOMAIN pendingByOtp
                /\ pendingByOtp[hs[s].otp].qty = hs[s].qty
                /\ pendingByOtp[hs[s].otp].unit = hs[s].unit
                /\ pendingByOtp[hs[s].otp].grade = hs[s].grade

\* a second delivery for a code replaced an entry with another quantity
C16_Witness ==
    \E s \in Senders :
        /\ hs[s].type = "DELIVERY_CONFIRMATION"
        /\ hs[s].event = "DeliveryRecorded"
        /\ hs[s].pc = "done"
        /\ hs[s].st0 > 0
        /\ hs[s].st0 # hs[s].qty
        /\ pendingByOtp[hs[s].otp].qty = hs[s].qty

\* a delivery whose code is empty or whose quantity is not a number above zero
InvalidDelivery(h) ==
    /\ h.type = "DELIVERY_CONFIRMATION"
    /\ h.pc # "idle"
    /\ (h.otp = "" \/ h.nan \/ h.qty <= 0)

\* C17: every step of the handling of a DeliveryConfirmation with an empty code or
\* a quantity that is zero, negative or not numeric leaves the store and the queue
\* unchanged, and when the handling has ended the sender has been notified of the
\* rejection and the rejection event has been emitted: DeliveryRejected when the
\* code or the quantity is missing, PendingDeliveryNotStored for a negative quantity.
C17_InvalidDeliveryRejected ==
    [][\A s \in Senders :
          (hs'[s] # hs[s] /\ InvalidDelivery(hs[s]))
             => /\ pendingByOtp' = pendingByOtp
                /\ queue' = queue
                /\ hs'[s].pc \in {"sms", "log", "done", "idle"}
                /\ hs'[s].pc = "done"
                      => /\ hs'[s].sms \in {"missing_otp_or_qty", "could_not_record"}
                         /\ hs'[s].event =
                               IF hs[s].otp = "" \/ hs[s].nan \/ hs[s].qty = 0
                               THEN "DeliveryRejected" ELSE "PendingDeliveryNotStored"
                         /\ hs'[s].log = <<"IncomingIntent", hs'[s].event>>]_vars

\* a delivery with a negative quantity for a code that has an entry was refused
\* although both parties are configured, and the entry is as it was
C17_Witness ==
    \E s \in Senders :
        /\ InvalidDelivery(hs[s])
        /\ hs[s].pc = "done"
        /\ hs[s].qty < 0
        /\ env.FARMER_ACCOUNT_ID # "" /\ env.BUYER_ACCOUNT_ID # ""
        /\ hs[s].st0 > 0
        /\ pendingByOtp[hs[s].otp].qty = hs[s].st0

NotConfigured == env.FARMER_ACCOUNT_ID = "" \/ env.BUYER_ACCOUNT_ID = ""

\* a delivery with a code and a quantity above zero
ValidDelivery(h) ==
    /\ h.type = "DELIVERY_CONFIRMATION"
    /\ h.pc # "idle"
    /\ h.otp # "" /\ ~h.nan /\ h.qty > 0

\* C18: while a party identifier is not configured, every step of the handling of
\* a valid DeliveryConfirmation leaves the store (and the queue) unchanged, the
\* handling ends normally with the configuration-failure notification sent and the
\* PendingDeliveryNotStored event emitted, and the sender's next intent is accepted.
C18_NotConfiguredNotStored ==
    [][\A s \in Senders :
          (hs'[s] # hs[s] /\ ValidDelivery(hs[s]) /\ NotConfigured)
             => /\ pendingByOtp' = pendingByOtp
                /\ queue' = queue
                /\ hs'[s].pc \in {"sms", "log", "done", "idle"}
                /\ hs'[s].pc = "done"
                      => /\ hs'[s].sms = "could_not_record"
                         /\ hs'[s].event = "PendingDeliveryNotStored"
                         /\ hs'[s].log = <<"IncomingIntent", "PendingDeliveryNotStored">>
                /\ hs[s].pc = "done" => hs'[s] = IdleHandler]_vars

\* a valid delivery was refused because the buyer's account is not configured
C18_Witness ==
    \E s \in Senders :
        /\ ValidDelivery(hs[s])
        /\ hs[s].pc = "done"
        /\ env.FARMER_ACCOUNT_ID # "" /\ env.BUYER_ACCOUNT_ID = ""
        /\ hs[s].event = "PendingDeliveryNotStored"
        /\ hs[s].otp \notin DOMAIN pendingByOtp

\* a HelpRequest, a NewListing, an Unknown intent or a BuyerConfirm without code
NoEffectIntent(h) ==
    /\ h.pc # "idle"
    /\ \/ h.type \in {"HELP_REQUEST", "NEW_LISTING", "UNKNOWN"}
       \/ h.type = "BUYER_CONFIRM" /\ h.otp = ""

\* C19: every step of the handling of a HelpRequest, a NewListing, an Unknown
\* intent or a BuyerConfirm with an empty code leaves the store and the queue
\* unchanged, also while other requests are in flight.
C19_NoEffectIntents ==
    [][\A s \in Senders :
          (hs'[s] # hs[s] /\ NoEffectIntent(hs[s]))
             => /\ pendingByOtp' = pendingByOtp
                /\ queue' = queue
                /\ hs'[s].taskId = 0]_vars

\* an Unknown intent and a BuyerConfirm without code were both handled to the end
\* while the store held an entry
C19_Witness ==
    \E s1, s2 \in Senders :
        /\ hs[s1].type = "BUYER_CONFIRM" /\ hs[s1].otp = "" /\ hs[s1].pc = "done"
        /\ hs[s2].type \in {"HELP_REQUEST", "NEW_LISTING", "UNKNOWN"} /\ hs[s2].pc = "done"
        /\ DOMAIN pendingByOtp # {}

\* C20: a handling begins by appending IncomingIntent and by nothing else, and
\* every later step of it, in particular every store mutation, enqueue,
\* notification and branch event, finds IncomingIntent first in the handling's log.
C20_IncomingIntentFirst ==
    [][/\ \A s \in Senders :
            /\ (hs[s].pc = "idle" /\ hs'[s].pc # "idle")
                  => /\ hs'[s].log = <<"IncomingIntent">>
                     /\ hs'[s].sms = "" /\ hs'[s].event = "" /\ hs'[s].taskId = 0
                     /\ pendingByOtp' = pendingByOtp
                     /\ queue' = queue
            /\ (hs[s].pc # "idle" /\ hs'[s] # hs[s])
                  => /\ Len(hs[s].log) >= 1
                     /\ hs[s].log[1] = "IncomingIntent"
       /\ (pendingByOtp' # pendingByOtp \/ queue' # queue)
            => \E s \in Senders :
                  /\ hs[s].pc # "idle"
                  /\ hs'[s] # hs[s]
                  /\ Len(hs[s].log) >= 1
                  /\ hs[s].log[1] = "IncomingIntent"]_vars

\* a BuyerConfirm went through enqueue, events, notification and delete
C20_Witness ==
    \E s \in Senders :
        /\ hs[s].pc = "done"
        /\ hs[s].sms \in {"queued", "queued_for_approval"}
        /\ hs[s].log = <<"IncomingIntent", "TaskEnqueued", "EscrowReleaseEnqueued">>
        /\ hs[s].otp \notin DOMAIN pendingByOtp

\* C21: a step that enqueues leaves the tasks already queued as they are and adds
\* one task at the end, with attempts 0, maxAttempts 5, backoffMs 1500, and with
\* status waiting_approval and nextRunAt = now when approval is required, status
\* pending and nextRunAt = now + AUTO_RELEASE_DELAY_MS when it is not.
C21_EnqueuedTask ==
    [][Len(queue') # Len(queue) =>
          /\ Len(queue') = Len(queue) + 1
          /\ \A i \in 1..Len(queue) : queue'[i] = queue[i]
          /\ LET t == queue'[Len(queue')]
             IN /\ t.type = "releaseEscrow"
                /\ t.attempts = 0
                /\ t.maxAttempts = 5
                /\ t.backoffMs = 1500
                /\ t.requiresApproval = env.REQUIRE_OPERATOR_APPROVAL
                /\ IF env.REQUIRE_OPERATOR_APPROVAL
                   THEN t.status = "waiting_approval" /\ t.nextRunAt = now
                   ELSE t.status = "pending" /\ t.nextRunAt = now + AUTO_RELEASE_DELAY_MS]_vars

\* a task was enqueued, at a time other than 0, behind a task that has already run
C21_Witness ==
    /\ Len(queue) = 2
    /\ queue[1].status = "done"
    /\ queue[2].status = "waiting_approval"
    /\ queue[2].nextRunAt > 0
    /\ queue[2].nextRunAt = hist[2].enqAt

C23_AutomaticRelease ==
    (~env.REQUIRE_OPERATOR_APPROVAL /\ Len(queue) >= 1 /\ queue[1].status = "pending")
        ~> (Len(queue) >= 1 /\ queue[1].status # "pending")

\* C24: tasks are never removed from the queue: every step of enqueue, approve
\* and tick leaves each task already in the queue at its position, with the same
\* id and the same payload, and the queue never gets shorter.
C24_QueueRetained ==
    [][/\ Len(queue') >= Len(queue)
       /\ \A i \in 1..Len(queue) :
            /\ queue'[i].id = queue[i].id
            /\ queue'[i].payload = queue[i].payload]_vars

\* two tasks enqueued in this order are both still queued after the first one is
\* done and the second one, approved or not, has been run and failed
C24_Witness ==
    /\ Len(queue) = 2
    /\ queue[1].id = 1 /\ queue[1].status = "done"
    /\ queue[2].id = 2 /\ queue[2].status = "failed"
    /\ hist[1].enqAt <= hist[2].enqAt

\* C25: every entry of the pending-delivery store has a non-empty code, a
\* quantity above 0 and non-empty farmer and buyer ids; every queued task has an
\* amount above 0, and a task being enqueued takes as amount the quantity of the
\* store entry found under its code.
C25_StoreAndAmount ==
    [][/\ \A c \in DOMAIN pendingByOtp' :
            /\ c # ""
            /\ pendingByOtp'[c].qty > 0
            /\ pendingByOtp'[c].farmerId # ""
            /\ pendingByOtp'[c].buyerId # ""
       /\ \A i \in 1..Len(queue') : queue'[i].payload.amount > 0
       /\ Len(queue') > Len(queue) =>
            LET t == queue'[Len(queue')]
            IN /\ t.payload.otp \in DOMAIN pendingByOtp
               /\ t.payload.amount = pendingByOtp[t.payload.otp].qty]_vars

\* a delivery of 198 bags was stored and its confirmation has just enqueued a task
\* of amount 198, the entry still being in the store
C25_Witness ==
    /\ Len(queue) >= 1
    /\ queue[Len(queue)].payload.amount = 198
    /\ queue[Len(queue)].payload.otp \in DOMAIN pendingByOtp
    /\ pendingByOtp[queue[Len(queue)].payload.otp].qty = 198
    /\ \E s \in Senders : hs[s].pc = "enqLog"

\* C26: a report run includes a message of the topic in its summary exactly when
\* the message's timestamp ts satisfies start <= ts < end, where end is 00:00 UTC
\* of the day of forDate and start is 24 hours before it.
C26_WindowExact ==
    report.pc \in {"logReport", "done", "error"} =>
        LET end == UtcDayStart(report.forDate)
            start == end - DayMs
            summarized == {report.withinDay[i].at : i \in 1..Len(report.withinDay)}
        IN \A i \in 1..Len(report.mirror) :
              report.mirror[i] \in summarized <=> (start <= report.mirror[i] /\ report.mirror[i] < end)

\* C27: whatever the number of pages of a topic served in timestamp order, the
\* fetch with its early stop returns every message inside the window: of the
\* messages with start <= ts < end, those fetched are all of them.
C27_EarlyStopKeepsWindow ==
    report.pc \in {"logReport", "done", "error"} =>
        LET end == UtcDayStart(report.forDate)
            start == end - DayMs
            inWindow(at) == start <= at /\ at < end
            fetched == {report.out[i].at : i \in 1..Len(report.out)}
        IN {at \in fetched : inWindow(at)}
             = {report.mirror[i] : i \in {j \in 1..Len(report.mirror) : inWindow(report.mirror[j])}}

\* C28: whatever the time of day the scheduler is started at, its first run is at
\* the next 00:05 UTC strictly after that instant (the same day's 00:05 when
\* started before it, the next day's otherwise), and every later run is exactly
\* 24 hours after the run before it.
C28_NextFivePastMidnight ==
    [][/\ sched'.pc # "off" =>
            LET today == UtcDayStart(sched'.startedAt) + FiveMinutesMs
            IN sched'.first = IF sched'.startedAt < today THEN today ELSE today + DayMs
       /\ (sched.runs = 0 /\ sched'.runs = 1) => sched'.last = sched'.first
       /\ (sched.runs >= 1 /\ sched'.runs = sched.runs + 1) => sched'.last = sched.last + DayMs]_vars

\* C30: the status of a task changes only along the edges of the stated machine:
\* a task is created waiting_approval or pending; waiting_approval goes to pending,
\* pending to running, running to done or failed, and a retryable failed task (one
\* with attempts left) goes back to running (the code has no pending status in
\* between: a failed task that is due is picked up as it is). A terminally failed
\* task has no way out, and done is absorbing: status, attempts, nextRunAt and
\* backoffMs of a done task never change.
C30_StatusMachine ==
    [][/\ \A i \in 1..Len(queue) :
            LET a == queue[i].status
                b == queue'[i].status
            IN /\ \/ a = b
                  \/ a = "waiting_approval" /\ b = "pending"
                  \/ a = "pending" /\ b = "running"
                  \/ a = "running" /\ b \in {"done", "failed"}
                  \/ a = "failed" /\ b = "running" /\ queue[i].attempts < queue[i].maxAttempts
               /\ a = "done" =>
                      /\ queue'[i].attempts = queue[i].attempts
                      /\ queue'[i].nextRunAt = queue[i].nextRunAt
                      /\ queue'[i].backoffMs = queue[i].backoffMs
       /\ \A i \in (Len(queue) + 1)..Len(queue') :
            queue'[i].status \in {"waiting_approval", "pending"}]_vars

\* C29: once a delivery has been recorded, confirmed by the buyer and its release
\* task is done, the ledger topic holds entries labelled DeliveryRecorded,
\* BuyerConfirmed and EscrowReleased, in that order.
C29_ExpectedEntries ==
    (/\ \E a \in 1..Len(hcs) : hcs[a] = "DeliveryRecorded"
     /\ \E i \in 1..Len(queue) : queue[i].status = "done")
        => \E a, b, c \in 1..Len(hcs) :
              /\ a < b /\ b < c
              /\ hcs[a] = "DeliveryRecorded"
              /\ hcs[b] = "BuyerConfirmed"
              /\ hcs[c] = "EscrowReleased"

\* the tick invocation k holds task i: it marked it running and has not yet
\* reached the assignment of done or the catch block
Holds(k, i) == tk[k].pc \in {"logRunning", "release", "logDone"} /\ tk[k].task = i

\* C31: a task marked running by a tick leaves running, to done or failed, within
\* that tick once the awaited calls settle; while it is running no step other
\* than one of that tick changes it; and no task is running unless a tick in
\* flight holds it.
C31_RunsToCompletion ==
    /\ [](\A i \in 1..Len(queue) :
            queue[i].status = "running" => \E k \in Sources : Holds(k, i))
    /\ [][\A i \in 1..Len(queue) :
            (queue[i].status = "running" /\ queue'[i] # queue[i])
                => /\ queue'[i].status \in {"done", "failed"}
                   /\ \E k \in Sources : Holds(k, i) /\ tk'[k] # tk[k]]_vars
    /\ \A i \in 1..MaxQueue :
          (Len(queue) >= i /\ queue[i].status = "running")
              ~> (Len(queue) >= i /\ queue[i].status \in {"done", "failed"})

\* the second task is running, held by a tick at the release action, while the
\* first one has already left running
C31_Witness ==
    /\ Len(queue) = 2
    /\ queue[1].status \in {"done", "failed"}
    /\ queue[2].status = "running"
    /\ \E k \in Sources : tk[k].pc = "release" /\ tk[k].task = 2

\* C32: for each task the release action completes successfully at most once over
\* all ticks, whatever ledger appends fail afterwards.
C32_ReleasedAtMostOnce ==
    [][\A k \in Sources :
          (tk[k].pc = "release" /\ tk'[k].pc = "logDone") => ~hist[tk[k].task].released]_vars

C34_AttemptsAndBackoffBounds ==
    \A i \in 1..Len(queue) :
        /\ 0 <= queue[i].attempts /\ queue[i].attempts <= queue[i].maxAttempts
        /\ BACKOFF_START_MS <= queue[i].backoffMs /\ queue[i].backoffMs <= BACKOFF_CAP_MS

\* C35: an entry leaves the pending-delivery store only through the BuyerConfirm
\* that created a task from that very entry: a delivery stored for code C between
\* a BuyerConfirm(C)'s lookup and its delete is not deleted without a task of its
\* own (consumed holds the codes whose current entry has produced a task).
C35_DeleteOwnEntry ==
    [][\A c \in DOMAIN pendingByOtp :
          c \notin DOMAIN pendingByOtp'
             => /\ c \in consumed
                /\ \E s \in Senders :
                      /\ hs[s].type = "BUYER_CONFIRM" /\ hs[s].otp = c
                      /\ hs[s].taskId # 0
                      /\ hs'[s] # hs[s]]_vars

\* C36: the delay a TaskRetryScheduled event reports (nextRunInMs) is the delay
\* applied to the task: nextRunAt minus the time of the failure
C36_ReportedDelayIsApplied ==
    [][\A k \in Sources :
          (tk[k].pc # "logRetry" /\ tk'[k].pc = "logRetry")
             => nextRunInMs(queue'[tk'[k].task])
                   = queue'[tk'[k].task].nextRunAt - now]_vars

----------------------------------------------------------------------------
(* Rule-based classifier: router.ts. A text is a sequence of characters. *)

MaxCode == 9

Digits == {"0", "1", "2", "3", "4", "5", "6", "7", "8", "9"}
Letters ==
    {"a", "b", "c", "d", "e", "f", "g", "h", "i", "j", "k", "l", "m", "n", "o", "p",
     "q", "r", "s", "t", "u", "v", "w", "x", "y", "z"}
\* the upper-case letters of the messages considered, with their lower case
UpperCase ==
    ("A" :> "a" @@ "C" :> "c" @@ "D" :> "d" @@ "O" :> "o" @@ "P" :> "p" @@ "T" :> "t")

Spaces == {" "}                                                         \* \s
WordChars == Digits \cup Letters \cup DOMAIN UpperCase \cup {"_"}       \* \w
Space(c) == c \in Spaces
WordChar(c) == c \in WordChars

\* String.prototype.toLowerCase
toLowerCase(s) ==
    [i \in 1..Len(s) |-> IF s[i] \in DOMAIN UpperCase THEN UpperCase[s[i]] ELSE s[i]]

\* String.prototype.trim
trim(s) ==
    LET ink == {i \in 1..Len(s) : ~Space(s[i])}
    IN IF ink = {}
       THEN <<>>
       ELSE SubSeq(s, CHOOSE i \in ink : \A j \in ink : i <= j,
                      CHOOSE i \in ink : \A j \in ink : i >= j)

\* the word w stands in s at position p
At(s, p, w) == p + Len(w) - 1 <= Len(s) /\ SubSeq(s, p, p + Len(w) - 1) = w

\* String.prototype.includes
Includes(s, w) == \E p \in 1..Len(s) : At(s, p, w)

\* the last position of the longest run of characters of class C that starts
\* at p (p - 1 or less when there is none): a greedy C* or C+
RunEnd(s, p, C) ==
    LET stops == {j \in p..Len(s) : s[j] \notin C}
    IN IF stops = {} THEN Len(s) ELSE (CHOOSE j \in stops : \A k \in stops : j <= k) - 1

NoMatch == [found |-> FALSE, group |-> <<>>]

\* line 28: lower.match(/^confirm\s+(\d{4,8})\b/i). The classes \s and \d are
\* disjoint and \b needs a non-word character or the end after the digits, so the
\* match takes all the spaces and the whole run of digits, which has 4 to 8 of them
confirmMatch(s) ==
    LET sp == RunEnd(s, 8, Spaces)
        dg == RunEnd(s, sp + 1, Digits)
    IN IF /\ At(s, 1, <<"c", "o", "n", "f", "i", "r", "m">>)
          /\ sp >= 8
          /\ dg - sp >= 4
          /\ dg - sp <= 8
          /\ (dg = Len(s) \/ ~WordChar(s[dg + 1]))
       THEN [found |-> TRUE, group |-> SubSeq(s, sp + 1, dg)]
       ELSE NoMatch

\* line 37: /\botp\s+(\w+)/i matched at position p
otpAt(s, p) ==
    LET sp == RunEnd(s, p + 3, Spaces)
        we == RunEnd(s, sp + 1, WordChars)
    IN IF /\ At(s, p, <<"o", "t", "p">>)
          /\ (p = 1 \/ ~WordChar(s[p - 1]))
          /\ sp >= p + 3
          /\ we > sp
       THEN [found |-> TRUE, group |-> SubSeq(s, sp + 1, we)]
       ELSE NoMatch

\* line 36: /(\d+(?:\.\d+)?)\s*kg/ matched at position p
qtyAt(s, p) ==
    LET d1 == RunEnd(s, p, Digits)
        d2 == RunEnd(s, d1 + 2, Digits)
        e2 == RunEnd(s, d2 + 1, Spaces)
        e1 == RunEnd(s, d1 + 1, Spaces)
    IN IF d1 < p
       THEN NoMatch
       ELSE IF /\ At(s, d1 + 1, <<".">>)
               /\ d2 >= d1 + 2
               /\ At(s, e2 + 1, <<"k", "g">>)
            THEN [found |-> TRUE, group |-> SubSeq(s, p, d2)]
            ELSE IF At(s, e1 + 1, <<"k", "g">>)
                 THEN [found |-> TRUE, group |-> SubSeq(s, p, d1)]
                 ELSE NoMatch

\* line 37: String.prototype.match without the g flag gives the leftmost match;
\* ?.[1] ?? '' gives its group, or '' when there is no match
otpGroup(s) ==
    LET hits == {p \in 1..Len(s) : otpAt(s, p).found}
    IN IF hits = {} THEN <<>>
       ELSE otpAt(s, CHOOSE p \in hits : \A q \in hits : p <= q).group

\* line 36: likewise for the quantity
qtyGroup(s) ==
    LET hits == {p \in 1..Len(s) : qtyAt(s, p).found}
    IN IF hits = {} THEN <<>>
       ELSE qtyAt(s, CHOOSE p \in hits : \A q \in hits : p <= q).group

Crops ==
    {<<"m", "a", "i", "z", "e">>, <<"b", "e", "a", "n", "s">>,
     <<"c", "o", "f", "f", "e", "e">>, <<"t", "e", "a">>, <<"r", "i", "c", "e">>}

\* lines 23-56: parseIntent; of the data of an intent, the code and the quantity
\* (unit and grade play no part in what is stored under which code)
parseIntent(text) ==
    LET lower == trim(toLowerCase(text))
    IN IF confirmMatch(lower).found
       THEN [type |-> "BUYER_CONFIRM", otp |-> confirmMatch(lower).group,
             quantity |-> <<>>]
       ELSE IF Includes(lower, <<"d", "e", "l", "i", "v", "e", "r", "e", "d">>)
            THEN [type |-> "DELIVERY_CONFIRMATION", otp |-> otpGroup(lower),
                  quantity |-> qtyGroup(lower)]
            ELSE IF lower = <<"h", "e", "l", "p">>
                 THEN [type |-> "HELP_REQUEST", otp |-> <<>>, quantity |-> <<>>]
                 ELSE IF \E c \in Crops : Includes(toLowerCase(text), c)
                      THEN [type |-> "NEW_LISTING", otp |-> <<>>, quantity |-> <<>>]
                      ELSE [type |-> "UNKNOWN", otp |-> <<>>, quantity |-> <<>>]

\* handleIntent.ts:55, 60 and 23: Number(quantity) of a quantity the classifier
\* extracted (digits, with an optional fraction, or '') is a positive number
positiveNumber(q) == \E i \in 1..Len(q) : q[i] \in Digits \ {"0"}

\* the codes typed after "OTP": up to MaxCode characters, digits and letters
CodeChars == {"5", "A"}

RECURSIVE CodesOfLen(_)
CodesOfLen(n) ==
    IF n = 0 THEN {<<>>} ELSE {Append(c, x) : c \in CodesOfLen(n - 1), x \in CodeChars}

TypedCodes == UNION {CodesOfLen(n) : n \in 0..MaxCode}

\* "Delivered 200kg OTP " and "Delivered 0kg OTP ", to be followed by a code
DeliveryHeads ==
    {<<"D", "e", "l", "i", "v", "e", "r", "e", "d", " ", "2", "0", "0", "k", "g", " ",
       "O", "T", "P", " ">>,
     <<"D", "e", "l", "i", "v", "e", "r", "e", "d", " ", "0", "k", "g", " ",
       "O", "T", "P", " ">>}

ConfirmHead == <<"C", "o", "n", "f", "i", "r", "m", " ">>

InitRouter ==
    /\ InitProgram
    /\ report = IdleReport
    /\ router \in {[IdleRouter EXCEPT !.pc = "delivery", !.text = h \o c] :
                     h \in DeliveryHeads, c \in TypedCodes}

\* index.ts:52 and handleIntent.ts:54-73: the delivery message is classified and
\* the delivery is stored under the code of the intent, or refused
routeDelivery ==
    /\ router.pc = "delivery"
    /\ LET i == parseIntent(router.text)
           otp == trim(i.otp)
       IN router' =
             IF /\ i.type = "DELIVERY_CONFIRMATION"
                /\ otp # <<>>
                /\ positiveNumber(i.quantity)
                /\ env.FARMER_ACCOUNT_ID # ""
                /\ env.BUYER_ACCOUNT_ID # ""
             THEN [router EXCEPT !.pc = "stored", !.otp = otp]
             ELSE [router EXCEPT !.pc = "refused"]
    /\ approveOut' = NoApprove
    /\ webhookOut' = NoAnswer
    /\ UNCHANGED <<env, tool, report, sched, hcs, pendingByOtp, queue, timer, now, hs, tk,
                   consumed, hist>>

\* index.ts:52 and handleIntent.ts:77-86: "Confirm <code>" for the stored code is
\* classified; a BUYER_CONFIRM intent is looked up under the code it carries
routeConfirm ==
    /\ router.pc = "stored"
    /\ LET i == parseIntent(ConfirmHead \o router.otp)
       IN router' = [router EXCEPT !.pc = "classified", !.type = i.type,
                                   !.confirmed = trim(i.otp)]
    /\ approveOut' = NoApprove
    /\ webhookOut' = NoAnswer
    /\ UNCHANGED <<env, tool, report, sched, hcs, pendingByOtp, queue, timer, now, hs, tk,
                   consumed, hist>>

NextRouter ==
    \/ routeDelivery
    \/ routeConfirm

SpecRouter == InitRouter /\ [][NextRouter]_vars

\* C37: every code under which a delivery is stored can be confirmed: the
\* classifier makes of "Confirm <code>" a BUYER_CONFIRM carrying that same code
C37_StoredCodeConfirmable ==
    router.pc = "classified"
       => /\ router.type = "BUYER_CONFIRM"
          /\ router.confirmed = router.otp

----------------------------------------------------------------------------
(* The webhook route: index.ts:42-75 *)

\* req.body.from and req.body.text of a request: absent or empty, blank, or given
Bodies ==
    [from : {<<>>, <<" ">>, <<"+", "2", "5", "4">>},
     text : {<<>>, <<" ">>, <<"h", "e", "l", "p">>}]

\* lines 43-49: a request whose trimmed from or text is empty is answered with an
\* error before anything else happens
webhookMissing(b) ==
    /\ trim(b.from) = <<>> \/ trim(b.text) = <<>>
    /\ webhookOut' = [to |-> "", status |-> "error", message |-> "missing_from_or_text"]
    /\ approveOut' = NoApprove
    /\ UNCHANGED <<router, env, tool, report, sched, hcs, pendingByOtp, queue, timer, now, hs,
                   tk, consumed, hist>>

\* the webhook with requests handled one after the other, on the intents about
\* one code; every awaited call of a handling settles
NextWebhook ==
    \/ \E b \in Bodies : webhookMissing(b)
    \/ \E s \in Senders, i \in IntentsOne : webhookSms(s, i)
    \/ \E s \in Senders : handleIntentStep(s)

SpecWebhook ==
    /\ Init
    /\ [][NextWebhook]_vars
    /\ \A s \in Senders : WF_vars(handleIntentStep(s))

\* C38: the webhook always answers: a request missing from or text gets an error
\* response and the step changes nothing else; a handling ended by an exception is
\* answered with an error response; every request being handled is answered
C38_AlwaysAnswers ==
    /\ [][webhookOut'.message = "missing_from_or_text"
             => /\ webhookOut'.status = "error"
                /\ UNCHANGED <<env, pendingByOtp, queue, timer, now, hs, tk, consumed,
                               hist, tool, report, sched, hcs, router>>]_vars
    /\ [][\A s \in Senders :
             (hs[s].pc = "threw" /\ hs'[s] # hs[s])
                => webhookOut' = [to |-> s, status |-> "error",
                                  message |-> "unable_to_process"]]_vars
    /\ \A s \in Senders : (hs[s].pc # "idle") ~> (webhookOut.to = s)

\* a handling ended by the rejected TaskEnqueued append has just been answered
C38_Witness ==
    \E s \in Senders :
        /\ webhookOut = [to |-> s, status |-> "error", message |-> "unable_to_process"]
        /\ hs[s].pc = "idle"
        /\ Len(queue) > 0

====
